---- MODULE Spec2Model ----
(***************************************************************************)
(* Model of tripleoclient/v1/undercloud_preflight.py: the preflight        *)
(* orchestrator check(), the checks it runs, the netaddr-based network     *)
(* validators and the streamed command runner _run_live_command.           *)
(*                                                                         *)
(* Three specifications share the module's variables:                      *)
(*   Spec      one run of check() against a host and a configuration       *)
(*   SpecFn    the pure validators applied to drawn inputs                 *)
(*   SpecLive  _run_live_command interleaved with its child process        *)
(***************************************************************************)
EXTENDS Integers, Sequences, FiniteSets, TLC

VARIABLES
  conf,                \* CONF values read more than once during a run
  static,              \* host: static hostname (hostnamectl --static)
  transient,           \* host: transient hostname (hostnamectl --transient)
  hosts,               \* host: /etc/hosts, a sequence of lines
  hosts0,              \* /etc/hosts as it was when check() was entered
  pc,                  \* position of check()
  started,             \* the checks started so far, in order
  cmds,                \* external commands spawned so far, in order
  log,                 \* LOG records written so far
  exc,                 \* the exception in flight, or NoExc
  outcome,             \* NotStarted / Running / Passed / Failed / Crashed
  exitcode,            \* sys.exit status, -1 while none
  detected_static,     \* local of _check_hostname
  detected_transient,  \* local of _check_hostname
  idx,                 \* index of the subnet loop of check()
  s,                   \* the subnet group CONF.get(subnet), fields as read
  fn,                  \* SpecFn: the validator under test, its input, result
  live                 \* SpecLive: child process, pipe and reader state

vars == <<conf, static, transient, hosts, hosts0, pc, started, cmds, log, exc,
          outcome, exitcode, detected_static, detected_transient, idx, s,
          fn, live>>

hostVars == <<static, transient, hosts>>
otherSpecVars == <<fn, live>>

(***************************************************************************)
(* Bounds of the model.                                                    *)
(***************************************************************************)
MaxVal == 3          \* addresses are the integers 0..MaxVal of each family
MaxSubnets == 2      \* CONF.subnets has at most this many names
MaxChildLines == 3   \* the child of _run_live_command writes at most this many lines

(***************************************************************************)
(* Program constants.                                                      *)
(***************************************************************************)
REQUIRED_MB == 7680

(***************************************************************************)
(* Hostnames are sequences of labels: <<"uc","example">> is uc.example.    *)
(* None (no override configured) is the empty sequence.                    *)
(***************************************************************************)
None == <<>>
HostNames == {<<"foo">>, <<"uc", "example">>}

\* '.' not in hostname
HasNoDot(h) == Len(h) = 1
\* hostname.split('.')[0]
ShortName(h) == <<Head(h)>>

\* subprocess output of hostnamectl: the name followed by a newline
CmdOutput(h) == [text |-> h, newline |-> TRUE]
\* str.rstrip()
Rstrip(o) == o.text

(***************************************************************************)
(* /etc/hosts: each line keeps whether it is a comment (lstrip starts with *)
(* '#'), whether the sed pattern 127.0.0.1 matches it, and the hostnames   *)
(* among its whitespace-separated words.                                   *)
(***************************************************************************)
HostsLine(c, m, w) == [comment |-> c, has127 |-> m, words |-> w]

HostsFiles ==
  { <<>>,
    << HostsLine(FALSE, TRUE, {}) >>,
    << HostsLine(FALSE, TRUE, {<<"foo">>}) >>,
    << HostsLine(FALSE, TRUE, {<<"uc", "example">>, <<"uc">>}) >>,
    << HostsLine(TRUE, TRUE, {<<"uc", "example">>}) >>,
    << HostsLine(TRUE, TRUE, {}), HostsLine(FALSE, FALSE, {<<"foo">>}) >> }

\* the for/else scan of /etc/hosts: some non-comment line has the name as a word
HostsContains(file, h) ==
  \E i \in 1..Len(file) : ~file[i].comment /\ h \in file[i].words

\* sed -i "s/127.0.0.1\(\s*\)/127.0.0.1\1<fqdn> <short> /" /etc/hosts
SedHosts(file, h) ==
  [i \in 1..Len(file) |->
     IF file[i].has127
       THEN [file[i] EXCEPT !.words = @ \cup {h, ShortName(h)}]
       ELSE file[i]]

(***************************************************************************)
(* Addresses and networks (netaddr).  An address is its family and its     *)
(* integer value; a string that does not parse is BadAddr.  Values are     *)
(* the low addresses 0..MaxVal of each family, so a block with more than   *)
(* 30 host bits holds all of them.                                         *)
(***************************************************************************)
Addr(ver, val) == [ver |-> ver, val |-> val]
BadAddr == [ver |-> 0, val |-> 0]
Cidr(ver, val, plen) == [ver |-> ver, val |-> val, prefixlen |-> plen]
BadCidr == [ver |-> 0, val |-> 0, prefixlen |-> 0]
Unread == [ver |-> -1, val |-> 0]

Width(ver) == IF ver = 4 THEN 32 ELSE 128

IPs == {Addr(v, n) : v \in {4, 6}, n \in 0..MaxVal}
AddrInputs == IPs \cup {BadAddr}

\* netaddr.IPAddress(x) raises AddrFormatError
Unparsable(x) == x.ver = 0

\* IPAddress in IPNetwork: same family and same network bits
InCidr(a, c) ==
  /\ a.ver = c.ver
  /\ LET hostbits == Width(c.ver) - c.prefixlen
     IN  IF hostbits > 30 THEN TRUE
         ELSE (a.val \div (2 ^ hostbits)) = (c.val \div (2 ^ hostbits))

\* IPAddress >= IPAddress: netaddr orders addresses by (version, value)
AddrGE(a, b) == a.ver > b.ver \/ (a.ver = b.ver /\ a.val >= b.val)


(***************************************************************************)
(* Log records, exceptions, command results.                               *)
(***************************************************************************)
LogErr(by, m) == [level |-> "error", by |-> by, msg |-> m]
LogInfo(by, m) == [level |-> "info", by |-> by, msg |-> m]
Exc(t, m) == [type |-> t, msg |-> m]
NoExc == Exc("none", "")

\* subprocess.check_output: exit 0, CalledProcessError, or OSError (no spawn)
CmdResults == {"ok", "nonzero", "nospawn"}

\* the statements after a check's failure: LOG.error lines, then raise
Fail(errs, e) ==
  /\ log' = log \o errs
  /\ exc' = e
  /\ pc' = "raised"

\* the statements of a passing step: LOG.info lines, then the next statement
Pass(infos, next) ==
  /\ log' = log \o infos
  /\ exc' = exc
  /\ pc' = next

\* _run_command failing: CalledProcessError is logged and re-raised as
\* RuntimeError; an OSError of Popen is not caught
RunCommandFail(r, name) ==
  IF r = "nonzero"
    THEN Fail(<<LogErr("_run_command", name \o " failed")>>,
              Exc("RuntimeError", name \o " failed"))
    ELSE Fail(<<>>, Exc("OSError", name))

Spawned(r, cmd) == IF r = "nospawn" THEN cmds ELSE Append(cmds, cmd)

(***************************************************************************)
(* Configuration values that are read at more than one place.              *)
(***************************************************************************)
SubnetNames == [i \in 1..(MaxSubnets + 1) |->
                  IF i = 1 THEN "ctlplane-subnet" ELSE "subnet" \o ToString(i)]

LocalIps == {BadCidr, Cidr(4, 1, 24), Cidr(4, 1, 32), Cidr(6, 1, 64),
             Cidr(6, 1, 48), Cidr(6, 1, 128)}

\* (undercloud_service_certificate or generate_service_certificate) and not
\* enable_ui, with undercloud_public_host and undercloud_admin_host; a host
\* name that is no IP address is BadAddr
VipConfs == { [check |-> FALSE, public_host |-> BadAddr, admin_host |-> BadAddr],
              [check |-> TRUE, public_host |-> BadAddr, admin_host |-> Addr(4, 1)],
              [check |-> TRUE, public_host |-> Addr(4, 1), admin_host |-> Addr(6, 0)] }

Confs == [undercloud_hostname : {None} \cup HostNames,
          local_ip : LocalIps,
          local_subnet : {"ctlplane-subnet"},
          subnets : {SubSeq(SubnetNames, 1, n) : n \in 0..MaxSubnets},
          custom_env_files : BOOLEAN,
          vip : VipConfs]

\* a subnet group none of whose options has been read yet
FreshGroup == [cidr |-> Unread, gateway |-> Unread, dhcp_start |-> Unread,
               dhcp_end |-> Unread, inspection_iprange |-> <<>>]

Init ==
  /\ conf \in Confs
  /\ static \in HostNames
  /\ transient \in HostNames
  /\ hosts \in HostsFiles
  /\ hosts0 = hosts
  /\ pc = "start"
  /\ started = <<>>
  /\ cmds = <<>>
  /\ log = <<>>
  /\ exc = NoExc
  /\ outcome = "NotStarted"
  /\ exitcode = -1
  /\ detected_static = None
  /\ detected_transient = None
  /\ idx = 1
  /\ s = FreshGroup
  /\ fn = [op |-> "none"]
  /\ live = [rpc |-> "none"]

\* check() is entered
Start ==
  /\ pc = "start"
  /\ pc' = "check_hostname"
  /\ outcome' = "Running"
  /\ UNCHANGED <<conf, hostVars, hosts0, started, cmds, log, exc, exitcode,
                 detected_static, detected_transient, idx, s, otherSpecVars>>

(***************************************************************************)
(* _check_hostname                                                         *)
(***************************************************************************)
\* lines 102-105: hostnamectl set-hostname when an override is configured
check_hostname_set ==
  /\ pc = "check_hostname"
  /\ started' = Append(started, "hostname")
  /\ IF conf.undercloud_hostname = None
       THEN /\ Pass(<<>>, "hn_static")
            /\ UNCHANGED <<cmds, static, transient>>
       ELSE \E r \in CmdResults :
              /\ cmds' = Spawned(r, "hostnamectl set-hostname")
              /\ IF r = "ok"
                   THEN /\ static' = conf.undercloud_hostname
                        /\ transient' = conf.undercloud_hostname
                        /\ Pass(<<>>, "hn_static")
                   ELSE /\ RunCommandFail(r, "hostnamectl")
                        /\ UNCHANGED <<static, transient>>
  /\ UNCHANGED <<conf, hosts, hosts0, outcome, exitcode, detected_static,
                 detected_transient, idx, s, otherSpecVars>>

\* lines 107-110: hostnamectl --static
check_hostname_static ==
  /\ pc = "hn_static"
  /\ \E r \in CmdResults :
       /\ cmds' = Spawned(r, "hostnamectl --static")
       /\ IF r = "ok"
            THEN /\ detected_static' = Rstrip(CmdOutput(static))
                 /\ log' = log \o <<LogInfo("_check_hostname", "Checking for a FQDN hostname..."),
                                    LogInfo("_check_hostname", "Static hostname detected")>>
                 /\ exc' = exc
                 /\ pc' = "hn_transient"
            ELSE /\ detected_static' = detected_static
                 /\ log' = log \o <<LogInfo("_check_hostname", "Checking for a FQDN hostname...")>>
                            \o (IF r = "nonzero"
                                  THEN <<LogErr("_run_command", "hostnamectl failed")>>
                                  ELSE <<>>)
                 /\ exc' = IF r = "nonzero" THEN Exc("RuntimeError", "hostnamectl failed")
                                            ELSE Exc("OSError", "hostnamectl")
                 /\ pc' = "raised"
  /\ UNCHANGED <<conf, hostVars, hosts0, started, outcome, exitcode,
                 detected_transient, idx, s, otherSpecVars>>

\* lines 111-114: hostnamectl --transient
check_hostname_transient ==
  /\ pc = "hn_transient"
  /\ \E r \in CmdResults :
       /\ cmds' = Spawned(r, "hostnamectl --transient")
       /\ IF r = "ok"
            THEN /\ detected_transient' = Rstrip(CmdOutput(transient))
                 /\ Pass(<<LogInfo("_check_hostname", "Transient hostname detected")>>,
                         "hn_hosts")
            ELSE /\ detected_transient' = detected_transient
                 /\ RunCommandFail(r, "hostnamectl")
  /\ UNCHANGED <<conf, hostVars, hosts0, started, outcome, exitcode,
                 detected_static, idx, s, otherSpecVars>>

\* lines 115-138: compare the two names, scan /etc/hosts, add the name with sed
check_hostname_hostsBug ==
  /\ pc = "hn_hosts"
  /\ IF detected_static # detected_transient
       THEN /\ Fail(<<LogErr("_check_hostname", "Static hostname does not match transient hostname"),
                      LogErr("_check_hostname", "Use hostnamectl to set matching hostnames.")>>,
                    Exc("RuntimeError", "Static and transient hostnames do not match"))
            /\ UNCHANGED <<cmds, hosts>>
       ELSE IF HostsContains(hosts, detected_static)
         THEN /\ Pass(<<>>, "check_memory")
              /\ UNCHANGED <<cmds, hosts>>
         ELSE \E r \in CmdResults :
                /\ cmds' = Spawned(r, "hostname-to-etc-hosts")
                /\ IF r = "ok"
                     THEN /\ hosts' = SedHosts(hosts, detected_static)
                          /\ IF HasNoDot(detected_static)
                               THEN Fail(<<LogErr("_check_hostname", "Configured hostname is not fully qualified.")>>,
                                         Exc("RuntimeError", "Configured hostname is not fully qualified."))
                               ELSE Pass(<<LogInfo("_check_hostname", "Added hostname to /etc/hosts")>>,
                                         "check_memory")
                     ELSE /\ hosts' = hosts
                          /\ RunCommandFail(r, "hostname-to-etc-hosts")
  /\ UNCHANGED <<conf, static, transient, hosts0, started, outcome, exitcode,
                 detected_static, detected_transient, idx, s, otherSpecVars>>
check_hostname_hosts ==
  /\ pc = "hn_hosts"
  /\ IF detected_static # detected_transient
       THEN /\ Fail(<<LogErr("_check_hostname", "Static hostname does not match transient hostname"),
                      LogErr("_check_hostname", "Use hostnamectl to set matching hostnames.")>>,
                    Exc("RuntimeError", "Static and transient hostnames do not match"))
            /\ UNCHANGED <<cmds, hosts>>
       ELSE IF HostsContains(hosts, detected_static)
         THEN /\ Pass(<<>>, "check_memory")
              /\ UNCHANGED <<cmds, hosts>>
         ELSE IF ShortName(detected_static) = detected_static
           THEN /\ Fail(<<LogErr("_check_hostname", "Configured hostname is not fully qualified.")>>,
                        Exc("RuntimeError", "Configured hostname is not fully qualified."))
                /\ UNCHANGED <<cmds, hosts>>
           ELSE \E r \in CmdResults :
                  /\ cmds' = Spawned(r, "hostname-to-etc-hosts")
                  /\ IF r = "ok"
                       THEN /\ hosts' = SedHosts(hosts, detected_static)
                            /\ Pass(<<LogInfo("_check_hostname", "Added hostname to /etc/hosts")>>,
                                    "check_memory")
                       ELSE /\ hosts' = hosts
                            /\ RunCommandFail(r, "hostname-to-etc-hosts")
  /\ UNCHANGED <<conf, static, transient, hosts0, started, outcome, exitcode,
                 detected_static, detected_transient, idx, s, otherSpecVars>>


(***************************************************************************)
(* Host-side checks whose inputs are probed once, when the check runs.     *)
(***************************************************************************)
\* mem.total + swap.total, in KiB (the byte count, a multiple of 1024,
\* exceeds the 32-bit integers of TLC)
MemInputs == {REQUIRED_MB * 1024 - 1, REQUIRED_MB * 1024}
\* (mem.total + swap.total) / 1024 / 1024, integer division
TotalMb(kib) == kib \div 1024

\* the checks that take one step: the step's result is "ok" or the exception
\* raised, errs the LOG.error records written before the raise
SimpleCheck(name, next, errs, e) ==
  /\ started' = Append(started, name)
  /\ IF e = NoExc THEN Pass(<<>>, next) ELSE Fail(errs, e)
  /\ UNCHANGED <<conf, hostVars, hosts0, cmds, outcome, exitcode,
                 detected_static, detected_transient, idx, s, otherSpecVars>>

check_memory ==
  /\ pc = "check_memory"
  /\ \E kib \in MemInputs :
         IF TotalMb(kib) < REQUIRED_MB
           THEN SimpleCheck("memory", "check_sysctl",
                            <<LogErr("_check_memory", "At least 7680 MB of memory is required")>>,
                            Exc("RuntimeError", "Insufficient memory available"))
           ELSE SimpleCheck("memory", "check_sysctl", <<>>, NoExc)

SysctlBase == {"net.ipv4.ip_forward", "net.ipv4.ip_nonlocal_bind"}
SysctlV6 == "net.ipv6.ip_nonlocal_bind"
\* the options of _check_sysctl whose /proc/sys path is no file
NotAvailable(ipv6_enabled, present) ==
  (SysctlBase \cup (IF ipv6_enabled THEN {SysctlV6} ELSE {})) \ present

check_sysctl ==
  /\ pc = "check_sysctl"
  /\ \E ipv6_enabled \in BOOLEAN, present \in SUBSET (SysctlBase \cup {SysctlV6}) :
         IF NotAvailable(ipv6_enabled, present) # {}
           THEN SimpleCheck("sysctl", "validate_passwords_file",
                            <<LogErr("_check_sysctl", "Required sysctl options are not available")>>,
                            Exc("RuntimeError", "Missing sysctl options"))
           ELSE SimpleCheck("sysctl", "validate_passwords_file", <<>>, NoExc)

validate_passwords_file ==
  /\ pc = "validate_passwords_file"
  /\ \E stackrc \in BOOLEAN, passwords \in BOOLEAN :
         IF stackrc /\ ~passwords
           THEN SimpleCheck("passwords_file", "env_files",
                            <<LogErr("_validate_passwords_file", "The passwords file is missing")>>,
                            Exc("FailedValidation", "The passwords file is missing"))
           ELSE SimpleCheck("passwords_file", "env_files", <<>>, NoExc)

\* check() lines 433-434 and _validate_env_files_paths up to line 376, where
\* the name self is not defined: the function raises NameError there, before
\* it spawns process-templates.py
validate_env_files_pathsAlways ==
  /\ pc = "env_files"
  /\ started' = Append(started, "env_files_paths")
  /\ Fail(<<>>, Exc("NameError", "self"))
  /\ UNCHANGED <<conf, hostVars, hosts0, cmds, outcome, exitcode,
                 detected_static, detected_transient, idx, s, otherSpecVars>>
validate_env_files_paths ==
  /\ pc = "env_files"
  /\ IF conf.custom_env_files
       THEN /\ started' = Append(started, "env_files_paths")
            /\ Fail(<<>>, Exc("NameError", "self"))
       ELSE /\ started' = started
            /\ Pass(<<>>, "validate_value_formats")
  /\ UNCHANGED <<conf, hostVars, hosts0, cmds, outcome, exitcode,
                 detected_static, detected_transient, idx, s, otherSpecVars>>

(***************************************************************************)
(* _validate_value_formats                                                 *)
(***************************************************************************)
\* the try block: "ok", or the reason local_ip is refused
LocalIpFormatNoV6Rule(ip) ==
  IF Unparsable(ip) THEN "invalid IPNetwork"
  ELSE IF ip.prefixlen = 32 THEN "Invalid netmask"
  ELSE "ok"
LocalIpFormat(ip) ==
  IF Unparsable(ip) THEN "invalid IPNetwork"
  ELSE IF ip.prefixlen = 32 THEN "Invalid netmask"
  ELSE IF ip.ver = 6 /\ ip.prefixlen # 64 THEN "Prefix must be 64 for IPv6"
  ELSE "ok"

\* the LOG.error records of the try block and its except clause
LocalIpErrs(r) ==
  (IF r = "invalid IPNetwork" THEN <<>> ELSE <<LogErr("_validate_value_formats", r)>>)
  \o <<LogErr("_validate_value_formats", "local_ip not valid")>>

validate_value_formatsNoHostname ==
  /\ pc = "validate_value_formats"
  /\ LET r == LocalIpFormat(conf.local_ip)
     IN  IF r # "ok"
           THEN SimpleCheck("value_formats", "subnet_loop",
                            LocalIpErrs(r), Exc("FailedValidation", "local_ip not valid"))
           ELSE SimpleCheck("value_formats", "subnet_loop", <<>>, NoExc)
validate_value_formats ==
  /\ pc = "validate_value_formats"
  /\ LET r == LocalIpFormat(conf.local_ip)
         hostname == conf.undercloud_hostname
     IN  IF r # "ok"
           THEN SimpleCheck("value_formats", "subnet_loop",
                            LocalIpErrs(r), Exc("FailedValidation", "local_ip not valid"))
         ELSE IF hostname # None /\ HasNoDot(hostname)
           THEN SimpleCheck("value_formats", "subnet_loop",
                            <<LogErr("_validate_value_formats", "Hostname is not fully qualified.")>>,
                            Exc("FailedValidation", "Hostname is not fully qualified."))
         ELSE SimpleCheck("value_formats", "subnet_loop", <<>>, NoExc)

(***************************************************************************)
(* The subnet loop of check().  s = CONF.get(subnet) is a group of the     *)
(* configuration; each of its options is looked up when the line that      *)
(* names it runs.  The configuration does not change during a run, so an   *)
(* option gets its value at its first read and keeps it for later reads.   *)
(***************************************************************************)
SubnetCidrs == {BadCidr, Cidr(4, 0, 31), Cidr(4, 0, 30), Cidr(6, 0, 127)}
InspectionInputs == {<<a>> : a \in AddrInputs}
                    \cup {<<a, b>> : a \in AddrInputs, b \in AddrInputs}

\* for subnet in CONF.subnets: s = CONF.get(subnet)
subnet_loop ==
  /\ pc = "subnet_loop"
  /\ IF idx <= Len(conf.subnets)
       THEN /\ s' = FreshGroup
            /\ pc' = "in_cidr"
       ELSE /\ s' = s
            /\ pc' = "validate_ips"
  /\ UNCHANGED <<conf, hostVars, hosts0, started, cmds, log, exc, outcome,
                 exitcode, detected_static, detected_transient, idx,
                 otherSpecVars>>

\* one statement of the loop body: s2 is s with the options read by the
\* statement, e the exception it raises (NoExc: none)
SubnetStep(name, next, s2, errs, e) ==
  /\ started' = IF name = "" THEN started ELSE Append(started, name)
  /\ s' = s2
  /\ IF e = NoExc THEN Pass(<<>>, next) ELSE Fail(errs, e)
  /\ UNCHANGED <<conf, hostVars, hosts0, cmds, outcome, exitcode,
                 detected_static, detected_transient, idx, otherSpecVars>>

\* validate_addr_in_cidr, nested in _validate_in_cidr
ValidateAddrInCidr(addr, cidr, require_ip) ==
  IF Unparsable(addr)
    THEN (IF require_ip THEN "Invalid IP address" ELSE "ok")
    ELSE (IF ~InCidr(addr, cidr) THEN "not in defined CIDR" ELSE "ok")

\* a step of _validate_in_cidr that validates one address
AddrStep(next, s2, r) ==
  IF r = "ok"
    THEN SubnetStep("", next, s2, <<>>, NoExc)
    ELSE SubnetStep("", next, s2, <<LogErr("_validate_in_cidr", r)>>,
                    Exc("FailedValidation", r))

\* line 242: cidr = netaddr.IPNetwork(subnet_props.cidr)
in_cidr_parse ==
  /\ pc = "in_cidr"
  /\ \E c \in SubnetCidrs :
         SubnetStep("in_cidr", "in_cidr_local_ip", [s EXCEPT !.cidr = c],
                    <<>>, IF Unparsable(c) THEN Exc("AddrFormatError", "cidr") ELSE NoExc)

\* lines 257-259
in_cidr_local_ip ==
  /\ pc = "in_cidr_local_ip"
  /\ IF conf.subnets[idx] = conf.local_subnet
         THEN AddrStep("in_cidr_gateway", s,
                       ValidateAddrInCidr(Addr(conf.local_ip.ver, conf.local_ip.val),
                                          s.cidr, TRUE))
         ELSE AddrStep("in_cidr_gateway", s, "ok")

\* line 260
in_cidr_gateway ==
  /\ pc = "in_cidr_gateway"
  /\ \E g \in AddrInputs :
         AddrStep("in_cidr_vip", [s EXCEPT !.gateway = g],
                  ValidateAddrInCidr(g, s.cidr, TRUE))

\* lines 265-273
in_cidr_vip ==
  /\ pc = "in_cidr_vip"
  /\ LET p == ValidateAddrInCidr(conf.vip.public_host, s.cidr, FALSE)
           a == ValidateAddrInCidr(conf.vip.admin_host, s.cidr, FALSE)
       IN  AddrStep("in_cidr_dhcp_start", s,
                    IF ~conf.vip.check THEN "ok" ELSE IF p # "ok" THEN p ELSE a)

\* line 274
in_cidr_dhcp_start ==
  /\ pc = "in_cidr_dhcp_start"
  /\ \E a \in AddrInputs :
         AddrStep("in_cidr_dhcp_end", [s EXCEPT !.dhcp_start = a],
                  ValidateAddrInCidr(a, s.cidr, TRUE))

\* line 275
in_cidr_dhcp_end ==
  /\ pc = "in_cidr_dhcp_end"
  /\ \E a \in AddrInputs :
         AddrStep("dhcp_range", [s EXCEPT !.dhcp_end = a],
                  ValidateAddrInCidr(a, s.cidr, TRUE))

\* _validate_dhcp_range
validate_dhcp_range ==
  /\ pc = "dhcp_range"
  /\ IF AddrGE(s.dhcp_start, s.dhcp_end)
         THEN SubnetStep("dhcp_range", "inspection_range", s,
                         <<LogErr("_validate_dhcp_range", "Invalid dhcp range specified")>>,
                         Exc("FailedValidation", "Invalid dhcp range specified"))
         ELSE SubnetStep("dhcp_range", "inspection_range", s, <<>>, NoExc)

\* _validate_inspection_range: "ok" or the exception it raises
InspectionRangeResult(r) ==
  IF Unparsable(r[1]) THEN "AddrFormatError"
  ELSE IF Len(r) < 2 THEN "IndexError"
  ELSE IF Unparsable(r[2]) THEN "AddrFormatError"
  ELSE IF AddrGE(r[1], r[2]) THEN "FailedValidation"
  ELSE "ok"

validate_inspection_range ==
  /\ pc = "inspection_range"
  /\ \E r \in InspectionInputs :
         LET res == InspectionRangeResult(r)
             s2 == [s EXCEPT !.inspection_iprange = r]
         IN  IF res = "ok"
               THEN SubnetStep("inspection_range", "no_overlap", s2, <<>>, NoExc)
             ELSE IF res = "FailedValidation"
               THEN SubnetStep("inspection_range", "no_overlap", s2,
                               <<LogErr("_validate_inspection_range", "Invalid inspection range specified")>>,
                               Exc("FailedValidation", "Invalid inspection range specified"))
             ELSE SubnetStep("inspection_range", "no_overlap", s2,
                             <<>>, Exc(res, "inspection_iprange"))

\* netaddr.IPRange(start, end) is built: both parse, same family, start <= end
IPRangeOk(a, b) ==
  /\ ~Unparsable(a)
  /\ ~Unparsable(b)
  /\ a.ver = b.ver
  /\ a.val <= b.val

\* netaddr.IPSet(netaddr.IPRange(start, end)): the addresses of the range
IPSetOfRangeHalfOpen(a, b) == {Addr(a.ver, n) : n \in a.val..(b.val - 1)}
IPSetOfRange(a, b) == {Addr(a.ver, n) : n \in a.val..b.val}

\* _validate_no_overlap: "ok", "overlap" (FailedValidation) or AddrFormatError
NoOverlapResult(ds, de, is, ie) ==
  IF ~IPRangeOk(ds, de) \/ ~IPRangeOk(is, ie) THEN "AddrFormatError"
  ELSE IF IPSetOfRange(ds, de) \cap IPSetOfRange(is, ie) # {} THEN "overlap"
  ELSE "ok"

\* _validate_no_overlap, then the next iteration of the loop
validate_no_overlap ==
  /\ pc = "no_overlap"
  /\ LET res == NoOverlapResult(s.dhcp_start, s.dhcp_end,
                                s.inspection_iprange[1], s.inspection_iprange[2])
     IN
      /\ idx' = IF res = "ok" THEN idx + 1 ELSE idx
      /\ started' = Append(started, "no_overlap")
      /\ IF res = "ok" THEN Pass(<<>>, "subnet_loop")
         ELSE IF res = "overlap"
           THEN Fail(<<>>, Exc("FailedValidation", "Inspection DHCP range overlaps provisioning DHCP range"))
         ELSE Fail(<<>>, Exc("AddrFormatError", "inspection_iprange"))
      /\ UNCHANGED <<conf, hostVars, hosts0, cmds, outcome, exitcode,
                     detected_static, detected_transient, s, otherSpecVars>>

(***************************************************************************)
(* The checks after the loop.                                              *)
(***************************************************************************)
NameserverInputs == {<<>>, <<Addr(4, 1)>>, <<Addr(6, 1), BadAddr>>, <<BadAddr>>}

validate_ips ==
  /\ pc = "validate_ips"
  /\ \E ns \in NameserverInputs :
         IF \E i \in 1..Len(ns) : Unparsable(ns[i])
           THEN SimpleCheck("ips", "validate_interface_exists",
                            <<LogErr("_validate_ips", "undercloud_nameservers must be a valid IP address")>>,
                            Exc("FailedValidation", "undercloud_nameservers must be a valid IP address"))
           ELSE SimpleCheck("ips", "validate_interface_exists", <<>>, NoExc)

validate_interface_exists ==
  /\ pc = "validate_interface_exists"
  /\ \E net_config_override \in BOOLEAN, present \in BOOLEAN :
         IF ~net_config_override /\ ~present
           THEN SimpleCheck("interface_exists", "validate_no_ip_change",
                            <<LogErr("_validate_interface_exists", "Invalid local_interface specified")>>,
                            Exc("FailedValidation", "Invalid local_interface specified"))
           ELSE SimpleCheck("interface_exists", "validate_no_ip_change",
                            <<>>, NoExc)

\* /etc/os-net-config/config.json as _validate_no_ip_change finds it
NetConfigs ==
  {[kind |-> k, ip |-> BadCidr] :
     k \in {"absent", "invalid_json", "no_ctlplane", "no_addresses_key", "empty_addresses"}}
  \cup {[kind |-> "configured", ip |-> c] : c \in LocalIps \ {BadCidr}}

\* _validate_no_ip_change: the exception it raises, NoExc when it returns
NoIpChangeResult(f) ==
  CASE f.kind = "absent" -> NoExc
    [] f.kind = "invalid_json" -> Exc("ValueError", "json.loads")
    [] f.kind = "no_ctlplane" -> NoExc
    [] f.kind = "no_addresses_key" -> Exc("KeyError", "addresses")
    [] f.kind = "empty_addresses" -> Exc("IndexError", "addresses")
    [] OTHER -> IF f.ip # conf.local_ip
                  THEN Exc("FailedValidation", "Changing the local_ip is not allowed.")
                  ELSE NoExc

validate_no_ip_change ==
  /\ pc = "validate_no_ip_change"
  /\ \E f \in NetConfigs :
         LET e == NoIpChangeResult(f)
         IN  SimpleCheck("no_ip_change", "return",
                         IF e.type = "FailedValidation"
                           THEN <<LogErr("_validate_no_ip_change", e.msg)>> ELSE <<>>,
                         e)

(***************************************************************************)
(* The end of check(): the except clauses, and the normal return.          *)
(***************************************************************************)
Handled == {"KeyError", "FailedValidation", "RuntimeError"}

\* the body of an except clause: LOG.error quoting the exception, sys.exit(1)
HandleSilent(type) ==
  /\ log' = log
  /\ exitcode' = 1
  /\ outcome' = "Failed"
  /\ pc' = "done"
  /\ UNCHANGED <<conf, hostVars, hosts0, started, cmds, exc, detected_static,
                 detected_transient, idx, s, otherSpecVars>>
Handle(type) ==
  /\ log' = Append(log, LogErr("check/" \o type, exc.msg))
  /\ exitcode' = 1
  /\ outcome' = "Failed"
  /\ pc' = "done"
  /\ UNCHANGED <<conf, hostVars, hosts0, started, cmds, exc, detected_static,
                 detected_transient, idx, s, otherSpecVars>>

HandleKeyError ==
  /\ pc = "raised"
  /\ exc.type = "KeyError"
  /\ Handle("KeyError")

HandleFailedValidation ==
  /\ pc = "raised"
  /\ exc.type = "FailedValidation"
  /\ Handle("FailedValidation")

HandleRuntimeError ==
  /\ pc = "raised"
  /\ exc.type = "RuntimeError"
  /\ Handle("RuntimeError")

\* an exception no except clause names leaves check()
Propagate ==
  /\ pc = "raised"
  /\ exc.type \notin Handled
  /\ outcome' = "Crashed"
  /\ pc' = "done"
  /\ UNCHANGED <<conf, hostVars, hosts0, started, cmds, log, exc, exitcode,
                 detected_static, detected_transient, idx, s, otherSpecVars>>

\* check() returns: the caller goes on and the process ends with status 0
Return ==
  /\ pc = "return"
  /\ outcome' = "Passed"
  /\ exitcode' = 0
  /\ pc' = "done"
  /\ UNCHANGED <<conf, hostVars, hosts0, started, cmds, log, exc,
                 detected_static, detected_transient, idx, s, otherSpecVars>>

Next ==
  \/ Start
  \/ check_hostname_set
  \/ check_hostname_static
  \/ check_hostname_transient
  \/ check_hostname_hosts
  \/ check_memory
  \/ check_sysctl
  \/ validate_passwords_file
  \/ validate_env_files_paths
  \/ validate_value_formats
  \/ subnet_loop
  \/ in_cidr_parse
  \/ in_cidr_local_ip
  \/ in_cidr_gateway
  \/ in_cidr_vip
  \/ in_cidr_dhcp_start
  \/ in_cidr_dhcp_end
  \/ validate_dhcp_range
  \/ validate_inspection_range
  \/ validate_no_overlap
  \/ validate_ips
  \/ validate_interface_exists
  \/ validate_no_ip_change
  \/ HandleKeyError
  \/ HandleFailedValidation
  \/ HandleRuntimeError
  \/ Propagate
  \/ Return

Spec == Init /\ [][Next]_vars


(***************************************************************************)
(* SpecFn: the pure validators applied to inputs drawn from bounded sets.  *)
(***************************************************************************)
LocalIpInputs == {BadCidr}
                 \cup {Cidr(4, n, p) : n \in 0..MaxVal, p \in 0..Width(4)}
                 \cup {Cidr(6, n, p) : n \in 0..MaxVal, p \in 0..Width(6)}

RangePairInputs == [dhcp_start : AddrInputs, dhcp_end : AddrInputs,
                    inspection_start : AddrInputs, inspection_end : AddrInputs]

\* everything of a run of check() at rest
RunIdle ==
  /\ conf = [undercloud_hostname |-> None, local_ip |-> BadCidr,
             local_subnet |-> "ctlplane-subnet", subnets |-> <<>>,
             custom_env_files |-> FALSE,
             vip |-> [check |-> FALSE, public_host |-> BadAddr, admin_host |-> BadAddr]]
  /\ static = <<"foo">>
  /\ transient = <<"foo">>
  /\ hosts = <<>>
  /\ hosts0 = <<>>
  /\ pc = "idle"
  /\ started = <<>>
  /\ cmds = <<>>
  /\ log = <<>>
  /\ exc = NoExc
  /\ outcome = "NotStarted"
  /\ exitcode = -1
  /\ detected_static = None
  /\ detected_transient = None
  /\ idx = 1
  /\ s = FreshGroup

runVars == <<conf, static, transient, hosts, hosts0, pc, started, cmds, log,
             exc, outcome, exitcode, detected_static, detected_transient,
             idx, s>>

InitFn ==
  /\ RunIdle
  /\ live = [rpc |-> "none"]
  /\ fn \in {[op |-> "local_ip", in |-> i, out |-> "pending"] : i \in LocalIpInputs}
       \cup {[op |-> "no_overlap", in |-> i, out |-> "pending"] : i \in RangePairInputs}

\* the try block of _validate_value_formats on fn.in
apply_local_ip_format ==
  /\ fn.op = "local_ip"
  /\ fn.out = "pending"
  /\ fn' = [fn EXCEPT !.out = LocalIpFormat(fn.in)]
  /\ UNCHANGED <<runVars, live>>

\* _validate_no_overlap on fn.in
apply_no_overlap ==
  /\ fn.op = "no_overlap"
  /\ fn.out = "pending"
  /\ fn' = [fn EXCEPT !.out = NoOverlapResult(fn.in.dhcp_start, fn.in.dhcp_end,
                                              fn.in.inspection_start,
                                              fn.in.inspection_end)]
  /\ UNCHANGED <<runVars, live>>

NextFn == apply_local_ip_format \/ apply_no_overlap

SpecFn == InitFn /\ [][NextFn]_vars

(***************************************************************************)
(* SpecLive: _run_live_command and its child process.  The child writes    *)
(* lines to the pipe that is its stdout and stderr, may close it, and      *)
(* exits; the pipe's write end is closed when the child has exited.        *)
(***************************************************************************)
Line(text, nl) == [text |-> text, newline |-> nl]
\* readline() at end of file returns the empty string
EofLine == Line("", FALSE)
LineTexts == {"a", "b", ""}

\* what a child may write: whole lines, the last one possibly unterminated
RECURSIVE SeqsUpTo(_, _)
SeqsUpTo(S, n) ==
  IF n = 0 THEN {<<>>}
  ELSE LET shorter == SeqsUpTo(S, n - 1)
       IN  shorter \cup {Append(q, x) : q \in shorter, x \in S}

ChildScripts ==
  LET whole == SeqsUpTo({Line(x, TRUE) : x \in LineTexts}, MaxChildLines)
  IN  whole \cup {Append(q, Line("a", FALSE)) :
                    q \in {w \in whole : Len(w) < MaxChildLines}}

InitLive ==
  /\ RunIdle
  /\ fn = [op |-> "none"]
  /\ \E sc \in ChildScripts :
       live = [rpc |-> "popen", script |-> sc, written |-> <<>>, pipe |-> <<>>,
               open |-> FALSE, spawned |-> FALSE, exited |-> FALSE, code |-> -1,
               returncode |-> -1, line |-> EofLine, backlog |-> 0]

\* line 80: subprocess.Popen; OSError when the command cannot be spawned
live_popen ==
  /\ live.rpc = "popen"
  /\ \E ok \in BOOLEAN :
       IF ok
         THEN /\ live' = [live EXCEPT !.rpc = "readline", !.spawned = TRUE, !.open = TRUE]
              /\ cmds' = Append(cmds, "yum")
              /\ exc' = exc
         ELSE /\ live' = [live EXCEPT !.rpc = "raised"]
              /\ cmds' = cmds
              /\ exc' = Exc("OSError", "yum")
  /\ UNCHANGED <<conf, hostVars, hosts0, pc, started, log, outcome, exitcode,
                 detected_static, detected_transient, idx, s, fn>>

\* the child writes its next line
child_write ==
  /\ live.spawned /\ live.open /\ ~live.exited
  /\ live.script # <<>>
  /\ live' = [live EXCEPT !.script = Tail(@),
                          !.written = Append(@, Head(live.script)),
                          !.pipe = Append(@, Head(live.script))]
  /\ UNCHANGED <<runVars, fn>>

\* the child closes its stdout and stderr and keeps running
child_close ==
  /\ live.spawned /\ live.open /\ ~live.exited
  /\ live' = [live EXCEPT !.open = FALSE]
  /\ UNCHANGED <<runVars, fn>>

\* the child exits with some status
child_exit ==
  /\ live.spawned /\ ~live.exited
  /\ \E status \in {0, 1} :
       live' = [live EXCEPT !.exited = TRUE, !.open = FALSE, !.code = status,
                            !.backlog = Len(live.pipe)]
  /\ UNCHANGED <<runVars, fn>>

\* readline() can return: a whole line is buffered, or the pipe is closed
CanRead == \/ (live.pipe # <<>> /\ Head(live.pipe).newline)
           \/ ~live.open

\* a loop that leaves as soon as poll() reports the exit, whatever was read
live_readlinePollAlways ==
  /\ live.rpc = "readline"
  /\ CanRead
  /\ LET line == IF live.pipe = <<>> THEN EofLine ELSE Head(live.pipe)
     IN  /\ live' = [live EXCEPT !.line = line,
                                 !.pipe = IF @ = <<>> THEN @ ELSE Tail(@),
                                 !.rpc = "poll"]
         /\ log' = IF line # EofLine
                     THEN Append(log, LogInfo("_run_live_command", Rstrip(line)))
                     ELSE log
  /\ UNCHANGED <<conf, hostVars, hosts0, pc, started, cmds, exc, outcome,
                 exitcode, detected_static, detected_transient, idx, s, fn>>

\* lines 84-86 and the first operand of line 87: readline, LOG.info of a
\* line that is not empty; poll() is called only when the line is empty
live_readline ==
  /\ live.rpc = "readline"
  /\ CanRead
  /\ LET line == IF live.pipe = <<>> THEN EofLine ELSE Head(live.pipe)
     IN  /\ live' = [live EXCEPT !.line = line,
                                 !.pipe = IF @ = <<>> THEN @ ELSE Tail(@),
                                 !.rpc = IF line = EofLine THEN "poll" ELSE "readline"]
         /\ log' = IF line # EofLine
                     THEN Append(log, LogInfo("_run_live_command", Rstrip(line)))
                     ELSE log
  /\ UNCHANGED <<conf, hostVars, hosts0, pc, started, cmds, exc, outcome,
                 exitcode, detected_static, detected_transient, idx, s, fn>>

\* line 87, second operand: process.poll() is not None ends the loop
live_poll ==
  /\ live.rpc = "poll"
  /\ live' = IF live.exited
               THEN [live EXCEPT !.returncode = live.code, !.rpc = "check"]
               ELSE [live EXCEPT !.rpc = "readline"]
  /\ UNCHANGED <<runVars, fn>>

\* lines 89-92
live_finish ==
  /\ live.rpc = "check"
  /\ IF live.returncode # 0
       THEN /\ log' = Append(log, LogErr("_run_live_command", "failed. See log for details."))
            /\ exc' = Exc("RuntimeError", "failed. See log for details.")
            /\ live' = [live EXCEPT !.rpc = "raised"]
       ELSE /\ log' = log
            /\ exc' = exc
            /\ live' = [live EXCEPT !.rpc = "returned"]
  /\ UNCHANGED <<conf, hostVars, hosts0, pc, started, cmds, outcome, exitcode,
                 detected_static, detected_transient, idx, s, fn>>

NextLive ==
  \/ live_popen
  \/ child_write
  \/ child_close
  \/ child_exit
  \/ live_readline
  \/ live_poll
  \/ live_finish

\* the reader runs whenever it can, and the child exits at some time
SpecLive ==
  /\ InitLive
  /\ [][NextLive]_vars
  /\ WF_vars(live_popen)
  /\ WF_vars(live_readline)
  /\ WF_vars(live_poll)
  /\ WF_vars(live_finish)
  /\ WF_vars(child_exit)


(***************************************************************************)
(* Properties.                                                             *)
(***************************************************************************)
Done == pc = "done"
ErrorRecords == SelectSeq(log, LAMBDA r : r.level = "error")
InfoRecords == SelectSeq(log, LAMBDA r : r.level = "info")
NoDotOverride ==
  conf.undercloud_hostname # None /\ HasNoDot(conf.undercloud_hostname)
SedCmd == "hostname-to-etc-hosts"
Ran(cmd) == \E i \in 1..Len(cmds) : cmds[i] = cmd
Started(name) == \E i \in 1..Len(started) : started[i] = name

RECURSIVE Repeat(_, _)
Repeat(q, n) == IF n = 0 THEN <<>> ELSE q \o Repeat(q, n - 1)

\* the order of section 4.5 for a configuration
ExpectedChecks ==
  <<"hostname", "memory", "sysctl", "passwords_file">>
  \o (IF conf.custom_env_files THEN <<"env_files_paths">> ELSE <<>>)
  \o <<"value_formats">>
  \o Repeat(<<"in_cidr", "dhcp_range", "inspection_range", "no_overlap">>,
            Len(conf.subnets))
  \o <<"ips", "interface_exists", "no_ip_change">>

\* C1: in every step of a run, a check that starts is the next one of the
\* fixed order (hostname, memory, sysctl, passwords file, environment-file
\* paths only if configured, value formats, the four subnet checks per
\* subnet, nameservers, interface, no-IP-change) and starts only while no
\* check has failed; once a check has failed no check is started and no
\* command is spawned; a run that ends Passed has started all of them.
C1_FixedOrderFailFast ==
  [][ /\ started' # started =>
           /\ exc = NoExc
           /\ Len(started) < Len(ExpectedChecks)
           /\ started' = Append(started, ExpectedChecks[Len(started) + 1])
      /\ exc # NoExc => (started' = started /\ cmds' = cmds)
      /\ cmds' # cmds => exc = NoExc
      /\ outcome' = "Passed" => started' = ExpectedChecks ]_vars

\* C1 witness: a run failed in the dhcp-order check of its second subnet
C1_Witness ==
  /\ Done
  /\ outcome = "Failed"
  /\ Len(conf.subnets) = 2
  /\ started = <<"hostname", "memory", "sysctl", "passwords_file", "value_formats",
                 "in_cidr", "dhcp_range", "inspection_range", "no_overlap",
                 "in_cidr", "dhcp_range">>

\* C2: every finished run is Passed or Failed; it is Passed with exit code 0
\* exactly when no check failed, and a failure of any check for any reason
\* ends it Failed with exit code 1.
C2_OnlyPassedOrFailed ==
  Done => /\ outcome \in {"Passed", "Failed"}
          /\ (outcome = "Passed") <=> (exc = NoExc)
          /\ outcome = "Passed" => exitcode = 0
          /\ exc # NoExc => (outcome = "Failed" /\ exitcode = 1)

\* a subnet of the loop has passed its four checks and s still holds it
SubnetValidated == pc = "subnet_loop" /\ idx > 1
InspectionRead == Len(s.inspection_iprange) = 2

\* C3: a subnet passes its validation only if gateway, DHCP start, DHCP end,
\* inspection start and inspection end each lie within its CIDR (and the
\* local IP, for the local subnet); a run whose subnet has an inspection
\* bound outside the CIDR ends Failed.
C3_AllBoundsInCidr ==
  /\ SubnetValidated =>
       /\ InCidr(s.gateway, s.cidr)
       /\ InCidr(s.dhcp_start, s.cidr)
       /\ InCidr(s.dhcp_end, s.cidr)
       /\ InCidr(s.inspection_iprange[1], s.cidr)
       /\ InCidr(s.inspection_iprange[2], s.cidr)
       /\ conf.subnets[idx - 1] = conf.local_subnet =>
            InCidr(Addr(conf.local_ip.ver, conf.local_ip.val), s.cidr)
  /\ (Done /\ InspectionRead /\ ~Unparsable(s.inspection_iprange[1])
           /\ ~Unparsable(s.inspection_iprange[2])
           /\ (~InCidr(s.inspection_iprange[1], s.cidr)
               \/ ~InCidr(s.inspection_iprange[2], s.cidr)))
       => outcome = "Failed"

\* C4: for every local_ip that parses, the format validation succeeds exactly
\* when the prefix length is not 32 for IPv4 and the family is IPv4 or the
\* prefix length is 64.
C4_LocalIpPrefixRule ==
  (fn.op = "local_ip" /\ fn.out # "pending" /\ ~Unparsable(fn.in)) =>
    ((fn.out = "ok") <=>
       (/\ ~(fn.in.ver = 4 /\ fn.in.prefixlen = 32)
        /\ (fn.in.ver = 4 \/ fn.in.prefixlen = 64)))

\* C4 witness: an IPv6 /128 was refused
C4_Witness ==
  /\ fn.op = "local_ip"
  /\ fn.in.ver = 6
  /\ fn.in.prefixlen = 128
  /\ fn.out \notin {"pending", "ok"}

\* both ranges are inclusive intervals of one family each
WellFormedRanges(i) ==
  /\ IPRangeOk(i.dhcp_start, i.dhcp_end)
  /\ IPRangeOk(i.inspection_start, i.inspection_end)
\* two inclusive intervals share an address: same family, neither ends
\* before the other begins
ShareAnAddress(i) ==
  /\ i.dhcp_start.ver = i.inspection_start.ver
  /\ ~(i.dhcp_end.val < i.inspection_start.val)
  /\ ~(i.inspection_end.val < i.dhcp_start.val)

\* C5: for a DHCP range and an inspection range, each an inclusive interval,
\* the no-overlap validation fails if they share an address and succeeds if
\* they share none, and swapping the two ranges gives the same outcome.
C5_OverlapIffShared ==
  (fn.op = "no_overlap" /\ fn.out # "pending" /\ WellFormedRanges(fn.in)) =>
    /\ ShareAnAddress(fn.in) => fn.out = "overlap"
    /\ ~ShareAnAddress(fn.in) => fn.out = "ok"
    /\ fn.out = NoOverlapResult(fn.in.inspection_start, fn.in.inspection_end,
                                fn.in.dhcp_start, fn.in.dhcp_end)

\* C5 witness: two ranges that share exactly their end point were refused
C5_Witness ==
  /\ fn.op = "no_overlap"
  /\ WellFormedRanges(fn.in)
  /\ fn.in.dhcp_start.val < fn.in.dhcp_end.val
  /\ fn.in.dhcp_end = fn.in.inspection_start
  /\ fn.in.inspection_start.val < fn.in.inspection_end.val
  /\ fn.out = "overlap"

\* the addresses read so far of subnet s that are of another family than
\* its CIDR, or a range read so far whose ends differ in family
IsAddr(a) == a.ver \in {4, 6}
MixedFamilies ==
  /\ IsAddr(s.cidr)
  /\ \/ \E a \in {s.gateway, s.dhcp_start, s.dhcp_end} :
          IsAddr(a) /\ a.ver # s.cidr.ver
     \/ /\ InspectionRead
        /\ IsAddr(s.inspection_iprange[1])
        /\ IsAddr(s.inspection_iprange[2])
        /\ \/ s.inspection_iprange[1].ver # s.cidr.ver
           \/ s.inspection_iprange[2].ver # s.cidr.ver

\* C6: a subnet whose addresses mix IPv4 and IPv6 never passes and its run
\* never ends Passed: the check that meets the other family fails and the
\* run ends Failed.
C6_MixedFamiliesFail ==
  /\ SubnetValidated => ~MixedFamilies
  /\ (Done /\ MixedFamilies) => outcome = "Failed"

\* the record the except clause of check() writes for the exception raised
OrchestratorRecord == LogErr("check/" \o exc.type, exc.msg)

\* C7: a run that ends Failed has written exactly one error record, the one
\* that quotes the first failure; a run that ends Passed has written none.
C7_ExactlyOneError ==
  Done => /\ outcome = "Failed" => ErrorRecords = <<OrchestratorRecord>>
          /\ outcome = "Passed" => ErrorRecords = <<>>

\* C7 as amended: a run that ends Failed has written one to three error
\* records; the last record of its log is the one the orchestrator wrote, it
\* quotes the failure that stopped the run and no other record is the
\* orchestrator's; a run that ends Passed has written no error record.
C7_Amended ==
  Done => /\ outcome = "Failed" =>
               /\ Len(ErrorRecords) \in 1..3
               /\ log[Len(log)] = OrchestratorRecord
               /\ \A i \in 1..(Len(log) - 1) :
                    log[i].by \notin {"check/" \o ty : ty \in Handled}
          /\ outcome = "Passed" => ErrorRecords = <<>>

\* C7 witness: a Failed run with three error records (hostnames differ)
C7_Witness ==
  /\ Done
  /\ outcome = "Failed"
  /\ Len(ErrorRecords) = 3
  /\ exc.msg = "Static and transient hostnames do not match"

FormatNotQualified == Exc("FailedValidation", "Hostname is not fully qualified.")
HostNotQualified == Exc("RuntimeError", "Configured hostname is not fully qualified.")

\* C8: with a hostname override that has no dot, a run that no other check
\* stops ends Failed with the value-format error "Hostname ... is not fully
\* qualified.", whatever /etc/hosts holds.
C8_FormatErrorWhateverHosts ==
  (Done /\ NoDotOverride /\ exc \in {NoExc, FormatNotQualified, HostNotQualified})
    => (outcome = "Failed" /\ exc = FormatNotQualified)

\* the three hostnamectl commands of _check_hostname succeeded
HostnameRead ==
  \E i \in 1..Len(log) : log[i].msg = "Transient hostname detected"

\* C8 as amended: with a hostname override that has no dot the run never
\* ends Passed; when hostnamectl succeeds and no non-comment line of
\* /etc/hosts holds the name, the run ends Failed in the hostname check with
\* "Configured hostname is not fully qualified.", /etc/hosts unchanged and
\* the value-format check never started; the value-format error is raised
\* only when /etc/hosts already holds the name.
C8_Amended ==
  (Done /\ NoDotOverride) =>
    /\ outcome # "Passed"
    /\ (HostnameRead /\ ~HostsContains(hosts0, conf.undercloud_hostname)) =>
         /\ outcome = "Failed"
         /\ exc = HostNotQualified
         /\ hosts = hosts0
         /\ ~Started("value_formats")
    /\ exc = FormatNotQualified =>
         /\ outcome = "Failed"
         /\ HostsContains(hosts0, conf.undercloud_hostname)

\* C8 witness: both kinds of failure happen; this is the hostname check's
C8_Witness ==
  /\ Done
  /\ NoDotOverride
  /\ exc = HostNotQualified
  /\ outcome = "Failed"

\* the texts the child has written, as LOG.info receives them
WrittenTexts == [i \in 1..Len(live.written) |-> Rstrip(live.written[i])]
InfoTexts == [i \in 1..Len(InfoRecords) |-> InfoRecords[i].msg]
LiveEnded == live.rpc \in {"returned", "raised"}

\* C9 (state part): _run_live_command has returned or raised only when the
\* child has exited, every line the child wrote is then logged at info level
\* once and in order, and it returns exactly when the exit status is 0.
C9_LiveSafe ==
  (LiveEnded /\ live.spawned) =>
    /\ live.exited
    /\ InfoTexts = WrittenTexts
    /\ (live.rpc = "returned") <=> (live.code = 0)
    /\ live.rpc = "raised" => exc.type = "RuntimeError"

\* C9: the streamed runner ends only after the child's exit with all output
\* logged once and in order, succeeds exactly on exit status 0, and, the
\* child exiting at some time, the runner ends at some time.
C9_LiveRunner == []C9_LiveSafe /\ <>LiveEnded

\* C9 witness: the runner returned although the child exited while written
\* lines were still unread
C9_Witness ==
  /\ live.rpc = "returned"
  /\ live.backlog >= 2
  /\ Len(live.written) = MaxChildLines
  /\ InfoTexts = WrittenTexts

HostnameCheckOver == Started("hostname") /\ pc \notin {"hn_static", "hn_transient", "hn_hosts"}
HostnameCheckFailed == HostnameCheckOver /\ exc # NoExc /\ ~Started("memory")

\* C10: the command that edits /etc/hosts is run only when static and
\* transient hostname are equal, no non-comment line of /etc/hosts holds the
\* static hostname and that hostname has a dot; when the hostname check
\* fails because the names differ or the name is not fully qualified,
\* /etc/hosts is unchanged; when /etc/hosts already holds the name the check
\* passes without running the edit command.
C10_HostsEditOnlyWhenSafe ==
  /\ Ran(SedCmd) =>
       /\ detected_static = detected_transient
       /\ ~HostsContains(hosts0, detected_static)
       /\ ~HasNoDot(detected_static)
  /\ hosts # hosts0 => Ran(SedCmd)
  /\ exc \in {HostNotQualified,
              Exc("RuntimeError", "Static and transient hostnames do not match")} =>
       (hosts = hosts0 /\ ~Ran(SedCmd))
  /\ (HostnameCheckOver /\ HostnameRead /\ detected_static = detected_transient
        /\ HostsContains(hosts0, detected_static)) =>
       (~HostnameCheckFailed /\ ~Ran(SedCmd) /\ hosts = hosts0)

\* C10 witness: the edit command ran and changed /etc/hosts
C10_Witness ==
  /\ pc = "check_memory"
  /\ Ran(SedCmd)
  /\ hosts # hosts0
  /\ HostsContains(hosts, detected_static)

====
